---- MODULE Spec2Model ----
(***************************************************************************)
(* A model of api/index.py: the routing function get_agent_decision, the   *)
(* four tool functions and the POST /generate handler handle_generation.   *)
(*                                                                         *)
(* Text is modelled as a sequence of characters (one-character strings);   *)
(* the backquote character, which cannot be written in a string literal    *)
(* here, is the atom Backtick.  Every call into a library (the model       *)
(* service, the storage service, uuid) is an event whose outcome the       *)
(* environment chooses: it returns a value or raises an exception.         *)
(***************************************************************************)
EXTENDS Naturals, Sequences, FiniteSets, TLC

VARIABLES pc, request, frames, http, obs, bucket, issued, clients

vars == <<pc, request, frames, http, obs, bucket, issued, clients>>

(***************************************************************************)
(* Bounds of the model.                                                    *)
(***************************************************************************)
\* requests in flight at once (SpecConc)
NumReq == 2
\* longest run of whitespace put around a classification response
MaxWs == 1
\* most content parts in one response of the image model
MaxParts == 2

Reqs == 1 .. NumReq

(***************************************************************************)
(* Characters and str methods.                                             *)
(***************************************************************************)
Backtick == "backtick"
Quote == "\""

\* the characters str.strip() with no argument removes (those used here)
PyWhitespace == {" ", "\n", "\t", "\r", "\f"}
\* the characters json.loads skips around values
JsonWhitespace == {" ", "\n", "\t", "\r"}

UpperCase == <<"A", "B", "C", "D", "E", "F", "G", "H", "I", "J", "K", "L", "M",
               "N", "O", "P", "Q", "R", "S", "T", "U", "V", "W", "X", "Y", "Z">>
LowerCase == <<"a", "b", "c", "d", "e", "f", "g", "h", "i", "j", "k", "l", "m",
               "n", "o", "p", "q", "r", "s", "t", "u", "v", "w", "x", "y", "z">>

LowerChar(c) ==
    IF \E k \in 1 .. 26 : UpperCase[k] = c
    THEN LowerCase[CHOOSE k \in 1 .. 26 : UpperCase[k] = c]
    ELSE c

\* str.lower()
lower(s) == [k \in 1 .. Len(s) |-> LowerChar(s[k])]

RECURSIVE lstrip(_, _)
\* str.lstrip(chars): drops leading characters while they are in the set chars
lstrip(s, chars) ==
    IF s # <<>> /\ Head(s) \in chars THEN lstrip(Tail(s), chars) ELSE s

RECURSIVE rstrip(_, _)
\* str.rstrip(chars): drops trailing characters while they are in the set chars
rstrip(s, chars) ==
    IF s # <<>> /\ s[Len(s)] \in chars
    THEN rstrip(SubSeq(s, 1, Len(s) - 1), chars)
    ELSE s

\* str.strip()
strip(s) == rstrip(lstrip(s, PyWhitespace), PyWhitespace)

\* the argument "```json" of lstrip and the argument "```" of rstrip, as the
\* character sets the two methods take them for
FenceJsonChars == {Backtick, "j", "s", "o", "n"}
FenceChars == {Backtick}

\* str.removeprefix(prefix), the method lstrip is easily mistaken for
removeprefix(s, prefix) ==
    IF Len(s) >= Len(prefix) /\ SubSeq(s, 1, Len(prefix)) = prefix
    THEN SubSeq(s, Len(prefix) + 1, Len(s))
    ELSE s

Fence == <<Backtick, Backtick, Backtick>>
FenceJson == Fence \o <<"j", "s", "o", "n">>

StripFencesByPrefix(text) == rstrip(removeprefix(strip(text), FenceJson), FenceChars)

\* response.text.strip().lstrip("```json").rstrip("```")
StripFences(text) == rstrip(lstrip(strip(text), FenceJsonChars), FenceChars)

(***************************************************************************)
(* json.loads, for JSON without string escapes and without fractions:      *)
(* objects, arrays, strings, integers, true, false, null.                  *)
(***************************************************************************)
Digits == {"0", "1", "2", "3", "4", "5", "6", "7", "8", "9"}

JFail == [ok |-> FALSE]
JOk(v, n) == [ok |-> TRUE, val |-> v, next |-> n]

RECURSIVE SkipWs(_, _)
SkipWs(s, i) ==
    IF i <= Len(s) /\ s[i] \in JsonWhitespace THEN SkipWs(s, i + 1) ELSE i

RECURSIVE CloseQuote(_, _)
\* the index of the next quote at or after j, 0 when there is none
CloseQuote(s, j) ==
    IF j > Len(s) THEN 0
    ELSE IF s[j] = Quote THEN j
    ELSE CloseQuote(s, j + 1)

RECURSIVE DigitsEnd(_, _)
DigitsEnd(s, j) ==
    IF j <= Len(s) /\ s[j] \in Digits THEN DigitsEnd(s, j + 1) ELSE j

StartsAt(s, i, w) ==
    /\ i + Len(w) - 1 <= Len(s)
    /\ SubSeq(s, i, i + Len(w) - 1) = w

RECURSIVE ParseValue(_, _)
RECURSIVE ParseObject(_, _, _)
RECURSIVE ParseArray(_, _, _)

ParseString(s, i) ==
    LET k == CloseQuote(s, i + 1)
    IN  IF k = 0 THEN JFail
        ELSE JOk([kind |-> "string", str |-> SubSeq(s, i + 1, k - 1)], k + 1)

ParseValue(s, i) ==
    IF i > Len(s) THEN JFail
    ELSE IF s[i] = Quote THEN ParseString(s, i)
    ELSE IF s[i] = "{" THEN ParseObject(s, SkipWs(s, i + 1), <<>>)
    ELSE IF s[i] = "[" THEN ParseArray(s, SkipWs(s, i + 1), <<>>)
    ELSE IF s[i] = "0" THEN JOk([kind |-> "number", str |-> <<"0">>], i + 1)
    ELSE IF s[i] \in Digits
         THEN JOk([kind |-> "number", str |-> SubSeq(s, i, DigitsEnd(s, i) - 1)],
                  DigitsEnd(s, i))
    ELSE IF StartsAt(s, i, <<"n", "u", "l", "l">>)
         THEN JOk([kind |-> "null"], i + 4)
    ELSE IF StartsAt(s, i, <<"t", "r", "u", "e">>)
         THEN JOk([kind |-> "bool", b |-> TRUE], i + 4)
    ELSE IF StartsAt(s, i, <<"f", "a", "l", "s", "e">>)
         THEN JOk([kind |-> "bool", b |-> FALSE], i + 5)
    ELSE JFail

\* i is the first non-blank position after "{" or after a ","
ParseObject(s, i, acc) ==
    IF i > Len(s) THEN JFail
    ELSE IF s[i] = "}" /\ acc = <<>>
         THEN JOk([kind |-> "object", members |-> acc], i + 1)
    ELSE IF s[i] # Quote THEN JFail
    ELSE LET key == ParseString(s, i)
         IN  IF ~key.ok THEN JFail
             ELSE LET c == SkipWs(s, key.next)
                  IN  IF c > Len(s) \/ s[c] # ":" THEN JFail
                      ELSE LET v == ParseValue(s, SkipWs(s, c + 1))
                           IN  IF ~v.ok THEN JFail
                               ELSE LET e == SkipWs(s, v.next)
                                        m == Append(acc, [key |-> key.val.str,
                                                          val |-> v.val])
                                    IN  IF e > Len(s) THEN JFail
                                        ELSE IF s[e] = ","
                                             THEN ParseObject(s, SkipWs(s, e + 1), m)
                                        ELSE IF s[e] = "}"
                                             THEN JOk([kind |-> "object",
                                                       members |-> m], e + 1)
                                        ELSE JFail

\* i is the first non-blank position after "[" or after a ","
ParseArray(s, i, acc) ==
    IF i > Len(s) THEN JFail
    ELSE IF s[i] = "]" /\ acc = <<>>
         THEN JOk([kind |-> "array", items |-> acc], i + 1)
    ELSE LET v == ParseValue(s, i)
         IN  IF ~v.ok THEN JFail
             ELSE LET e == SkipWs(s, v.next)
                      m == Append(acc, v.val)
                  IN  IF e > Len(s) THEN JFail
                      ELSE IF s[e] = ","
                           THEN ParseArray(s, SkipWs(s, e + 1), m)
                      ELSE IF s[e] = "]"
                           THEN JOk([kind |-> "array", items |-> m], e + 1)
                      ELSE JFail

\* json.loads(s): the value, or JSONDecodeError
json_loads(s) ==
    LET v == ParseValue(s, SkipWs(s, 1))
    IN  IF v.ok /\ SkipWs(s, v.next) = Len(s) + 1
        THEN [raised |-> FALSE, value |-> v.val]
        ELSE [raised |-> TRUE]

(***************************************************************************)
(* The routing function.                                                   *)
(***************************************************************************)
chibi == <<"c", "h", "i", "b", "i">>
robot == <<"r", "o", "b", "o", "t">>
diagram == <<"d", "i", "a", "g", "r", "a", "m">>
general == <<"g", "e", "n", "e", "r", "a", "l">>

\* ['chibi', 'robot', 'diagram', 'general']
ToolNames == {chibi, robot, diagram, general}

toolKey == <<"t", "o", "o", "l">>

RECURSIVE DictLookup(_, _, _)
\* the value a dict built from the members holds for key (a later member
\* replaces an earlier one of the same key), or default
DictLookup(members, key, default) ==
    IF members = <<>> THEN default
    ELSE IF members[Len(members)].key = key THEN members[Len(members)].val
    ELSE DictLookup(SubSeq(members, 1, Len(members) - 1), key, default)

\* the except branch of get_agent_decision
AgentExcept == general

\* The try block of get_agent_decision, after the constructor: outcome is what
\* routing_model.generate_content(user_prompt) and response.text gave, the
\* text of the response or an exception.  The result is the tool returned.
AgentTry(outcome) ==
    IF outcome.raised THEN AgentExcept
    ELSE LET json_text == StripFences(outcome.text)
             decision == json_loads(json_text)
         IN  IF decision.raised THEN AgentExcept
             \* .get on a list, a str, an int or None raises AttributeError
             ELSE IF decision.value.kind # "object" THEN AgentExcept
             ELSE LET t == DictLookup(decision.value.members, toolKey,
                                      [kind |-> "string", str |-> general])
                  \* .lower on a value that is no str raises AttributeError
                  IN  IF t.kind # "string" THEN AgentExcept
                      ELSE IF lower(t.str) \notin ToolNames THEN general
                      ELSE lower(t.str)

(***************************************************************************)
(* Classification responses the environment may give.                     *)
(***************************************************************************)
Rep(c, k) == [i \in 1 .. k |-> c]

\* {"tool": "<t>"}, with sp between the colon and the value
ToolObject(t, sp) ==
    <<"{", Quote>> \o toolKey \o <<Quote, ":">> \o sp \o <<Quote>> \o t \o <<Quote, "}">>

Capitalized(t) == <<UpperCase[CHOOSE k \in 1 .. 26 : LowerCase[k] = t[1]]>> \o Tail(t)
Shouted(t) == [k \in 1 .. Len(t) |-> UpperCase[CHOOSE j \in 1 .. 26 : LowerCase[j] = t[k]]]

\* the four names in lower case, with a capital, in capitals
ToolSpellings == ToolNames \cup {Capitalized(chibi), Capitalized(diagram)}
                           \cup {Shouted(robot), Shouted(general)}

\* the responses the routing instruction asks for
GoodBodies ==
    {ToolObject(t, <<" ">>) : t \in ToolSpellings} \cup {ToolObject(t, <<>>) : t \in ToolNames}

cat == <<"c", "a", "t">>

\* responses that are malformed once any fence is taken away
BadBodies ==
    { <<>>,
      chibi,
      <<Quote>> \o chibi \o <<Quote>>,
      <<"n", "u", "l", "l">>,
      <<"7">>,
      <<"[", "]">>,
      <<"[", Quote>> \o robot \o <<Quote, "]">>,
      <<"{", "}">>,
      ToolObject(cat, <<" ">>),
      <<"{", Quote>> \o toolKey \o <<Quote, ":", "7", "}">>,
      <<"{", Quote>> \o toolKey \o <<Quote, ":", "n", "u", "l", "l", "}">>,
      <<"{", Quote, "n", "a", "m", "e", Quote, ":", Quote>> \o robot \o <<Quote, "}">>,
      <<"{", Quote>> \o toolKey \o <<Quote, ":", Quote>> \o diagram }

Bodies == GoodBodies \cup BadBodies

\* what may stand before and after the body: nothing, a fence, or other text
Openers == { <<>>, FenceJson, Fence, <<Backtick>>, <<"j", "s", "o", "n">>,
             <<"s", "o", "n">>, Fence \o <<"J", "S", "O", "N">> }
Closers == { <<>>, Fence, <<Backtick>> }

OuterRuns == {Rep(c, k) : c \in {"\n", "\f"}, k \in 0 .. MaxWs}
InnerRuns == {Rep(c, k) : c \in {" ", "\n"}, k \in 0 .. MaxWs}

\* A response of the routing model: its text, and the pieces it was put
\* together from (AgentTry reads the text alone).
Response(a, o, b, body, d, c, e) ==
    [raised |-> FALSE, text |-> a \o o \o b \o body \o d \o c \o e,
     opener |-> o, body |-> body, closer |-> c]

Responses ==
    { Response(a, o, b, body, d, c, e) :
        a \in OuterRuns, o \in Openers, b \in InnerRuns, body \in Bodies,
        d \in InnerRuns, c \in Closers, e \in OuterRuns }

(***************************************************************************)
(* Configuration and the values the tools build.                           *)
(***************************************************************************)
BUCKET_NAME == "BUCKET_NAME"

\* image_model, text_model and output_bucket, set when the module is loaded
StartupClients ==
    [image_model |-> "gemini-2.5-flash-image",
     text_model |-> "gemini-2.5-pro",
     output_bucket |-> BUCKET_NAME]

CHIBI_STYLE_GUIDE_URIS ==
    << "gs://BUCKET_NAME/chibi_dataset_images/elsa_01.png",
       "gs://BUCKET_NAME/chibi_dataset_images/elsa_02.png",
       "gs://BUCKET_NAME/chibi_dataset_images/elsa_03.png",
       "gs://BUCKET_NAME/chibi_dataset_images/elsa_04.png",
       "gs://BUCKET_NAME/chibi_dataset_images/elsa_10.png",
       "gs://BUCKET_NAME/chibi_dataset_images/elsa_15.png",
       "gs://BUCKET_NAME/chibi_dataset_images/elsa_09_dollar.png",
       "gs://BUCKET_NAME/chibi_dataset_images/elsa_09_heart.png",
       "gs://BUCKET_NAME/chibi_dataset_images/elsa_09_sad.png",
       "gs://BUCKET_NAME/chibi_dataset_images/elsa_13_wink.png",
       "gs://BUCKET_NAME/chibi_dataset_images/elsa_13_star.png",
       "gs://BUCKET_NAME/chibi_dataset_images/elsa_13_sleep.png",
       "gs://BUCKET_NAME/chibi_dataset_images/elsa_13_angry.png",
       "gs://BUCKET_NAME/chibi_dataset_images/elsa_20_cropped.png" >>

ROBOT_STYLE_GUIDE_URIS ==
    << "gs://BUCKET_NAME/robot_images/elsa_05.png",
       "gs://BUCKET_NAME/robot_images/elsa_06.png",
       "gs://BUCKET_NAME/robot_images/elsa_07.png",
       "gs://BUCKET_NAME/robot_images/elsa_08.png",
       "gs://BUCKET_NAME/robot_images/elsa_11.png",
       "gs://BUCKET_NAME/robot_images/elsa_12.png",
       "gs://BUCKET_NAME/robot_images/elsa_17.png",
       "gs://BUCKET_NAME/robot_images/elsa_18.png",
       "gs://BUCKET_NAME/robot_images/elsa_19.png" >>

\* Part.from_uri(uri, mime_type="image/png")
Part_from_uri(uri) == [kind |-> "uri", uri |-> uri, mime_type |-> "image/png"]

TextPart(pieces) == [kind |-> "text", text |-> pieces]

\* f"Using the {len(uris)} uploaded images as a visual style reference for the
\* '{character}' character, fulfill this request: '{prompt}'"
StyleInstruction(uris, character, prompt) ==
    TextPart(<< "Using the ", ToString(Len(uris)),
                " uploaded images as a visual style reference for the '",
                character, "' character, fulfill this request: '", prompt, "'" >>)

PromptPartsWithoutFirstUri(first, uris) ==
    <<first>> \o [k \in 1 .. Len(uris) - 1 |-> Part_from_uri(uris[k + 1])]

\* prompt_parts = [first]; prompt_parts.extend([Part.from_uri(uri, ...) for uri in uris])
PromptParts(first, uris) ==
    <<first>> \o [k \in 1 .. Len(uris) |-> Part_from_uri(uris[k])]

\* What differs between the three image tools: the reference images, the
\* character named in the instruction, the style in the file name and the
\* label in the error text.
ImageTool(f) ==
    CASE f = "generate_chibi_image" ->
           [uris |-> CHIBI_STYLE_GUIDE_URIS, character |-> "chibi mascot",
            style |-> "chibi", label |-> "Chibi image"]
      [] f = "generate_robot_image" ->
           [uris |-> ROBOT_STYLE_GUIDE_URIS, character |-> "red robot",
            style |-> "robot", label |-> "Robot image"]
      [] f = "generate_general_image" ->
           [uris |-> <<>>, character |-> "",
            style |-> "general", label |-> "general image"]

\* the list handed to image_model.generate_content
ImageRequest(f, prompt) ==
    IF f = "generate_general_image"
    THEN <<TextPart(<<prompt>>)>>
    ELSE PromptParts(StyleInstruction(ImageTool(f).uris, ImageTool(f).character, prompt),
                     ImageTool(f).uris)

NoBytes == "None"

RECURSIVE LastInline(_)
LastInline(parts) ==
    IF parts = <<>> THEN NoBytes
    ELSE IF parts[Len(parts)].inline_data # "" THEN parts[Len(parts)].inline_data
    ELSE LastInline(SubSeq(parts, 1, Len(parts) - 1))

RECURSIVE FirstInline(_)
\* image_bytes after the loop over response.candidates[0].content.parts
FirstInline(parts) ==
    IF parts = <<>> THEN NoBytes
    ELSE IF Head(parts).inline_data # "" THEN Head(parts).inline_data
    ELSE FirstInline(Tail(parts))

\* f"outputs/{style}_{uuid.uuid4()}.png"
FileName(style, u) == <<"outputs/", style, "_", u, ".png">>

\* blob.public_url
PublicUrl(name) == <<"https://storage.googleapis.com/", BUCKET_NAME, "/">> \o name

ImageResult(name) == [type |-> "image", content |-> PublicUrl(name)]

DiagramResult(text) == [type |-> "diagram", content |-> <<text>>]

ToolExceptBare(label, e) == [type |-> "text", content |-> <<e>>]

\* except Exception as e: return {"type": "text", "content": f"Error generating {label}: {e}"}
ToolExcept(label, e) ==
    [type |-> "text", content |-> <<"Error generating ", label, ": ", e>>]

\* result = {}
EmptyDict == [k \in {} |-> ""]

\* the if/elif chain of handle_generation
ToolFunction(tool) ==
    IF tool = chibi THEN "generate_chibi_image"
    ELSE IF tool = robot THEN "generate_robot_image"
    ELSE IF tool = diagram THEN "generate_diagram_code"
    ELSE IF tool = general THEN "generate_general_image"
    ELSE "none"

ImageFunctions ==
    {"generate_chibi_image", "generate_robot_image", "generate_general_image"}

(***************************************************************************)
(* What the environment may answer.                                        *)
(***************************************************************************)
Prompts == {"a chibi banner for my blog", "a flowchart of the CI pipeline"}

\* str(e) of an exception a remote call raises
ErrMsgs == {"503 Service Unavailable", "403 Forbidden"}

Raises(msgs) == {[raised |-> TRUE, msg |-> m] : m \in msgs}

UuidNames == <<"uuid-1", "uuid-2", "uuid-3", "uuid-4">>
UUIDs == {UuidNames[k] : k \in 1 .. NumReq}

\* a content part: inline_data is "" when the part carries none (a text part)
PartValues == {[inline_data |-> d] : d \in {"", "png-A", "png-B"}}
PartSeqs == UNION {[1 .. n -> PartValues] : n \in 0 .. MaxParts}

\* image_model.generate_content: an exception, a response without
\* candidates, or a response whose first candidate holds the parts
ImageOutcomes ==
    Raises(ErrMsgs)
      \cup {[raised |-> FALSE, candidates |-> <<>>]}
      \cup {[raised |-> FALSE, candidates |-> <<ps>>] : ps \in PartSeqs}

\* diagram_model.generate_content and response.text
DiagramOutcomes ==
    Raises(ErrMsgs)
      \cup {[raised |-> FALSE, text |-> t] :
              t \in {"graph TD; A-->B", "I cannot draw that."}}

\* routing_model.generate_content and response.text, every response
RouteOutcomes == Raises({"503 Service Unavailable"}) \cup Responses

\* a few of them, for the runs that go on to the tools
FlowOutcomes ==
    Raises({"503 Service Unavailable"})
      \cup { Response(<<>>, FenceJson, <<"\n">>, ToolObject(chibi, <<" ">>), <<"\n">>, Fence, <<>>),
             Response(<<>>, <<>>, <<>>, ToolObject(Shouted(robot), <<" ">>), <<>>, <<>>, <<"\n">>),
             Response(<<>>, Fence, <<"\n">>, ToolObject(diagram, <<>>), <<"\n">>, Fence, <<>>),
             Response(<<>>, <<>>, <<>>, ToolObject(general, <<" ">>), <<>>, <<>>, <<>>),
             Response(<<>>, <<>>, <<>>, ToolObject(cat, <<" ">>), <<>>, <<>>, <<>>),
             Response(<<>>, <<>>, <<>>, chibi, <<>>, <<>>, <<>>) }

(***************************************************************************)
(* State.  pc[r] is where request r stands; frames[Frame(r)] holds the     *)
(* local variables of its call of handle_generation and of the tool it     *)
(* runs; http[r] is the response sent; obs[r] lists, in order, the library *)
(* calls made for r with what each was given and what it gave.             *)
(***************************************************************************)
FrameShared(r) == 1

\* every call has local variables of its own
Frame(r) == r

NoLocals ==
    [tool_to_use |-> <<>>, task_prompt |-> "", image_bytes |-> NoBytes,
     file_name |-> <<>>, result |-> EmptyDict]

NoResponse == [status |-> 0]

\* FastAPI's answer when an exception leaves the handler
ServerError == [status |-> 500]

L(r) == frames[Frame(r)]

\* a function of index.py is called with a prompt
InvokeEv(f, prompt) == [call |-> f, prompt |-> prompt]
CtorEv(model, raised) == [call |-> "GenerativeModel", model |-> model, raised |-> raised]
GenEv(model, contents, out) ==
    [call |-> "generate_content", model |-> model, contents |-> contents, out |-> out]
FromUriEv(raised) == [call |-> "Part.from_uri", raised |-> raised]
UuidEv(u) == [call |-> "uuid4", value |-> u]
UploadEv(name, data, out) ==
    [call |-> "upload_from_string", name |-> name, data |-> data,
     content_type |-> "image/png", out |-> out]
PublicEv(name, out) == [call |-> "make_public", name |-> name, out |-> out]

Returned == [raised |-> FALSE]

InitOf(active) ==
    /\ pc = [r \in Reqs |-> IF r \in active THEN "idle" ELSE "absent"]
    /\ request = [r \in Reqs |-> [prompt |-> ""]]
    /\ frames = [f \in Reqs |-> NoLocals]
    /\ http = [r \in Reqs |-> NoResponse]
    /\ obs = [r \in Reqs |-> <<>>]
    /\ bucket = <<>>
    /\ issued = {}
    /\ clients = StartupClients

Step(r, next, locals, evs, resp) ==
    /\ pc' = [pc EXCEPT ![r] = next]
    /\ frames' = [frames EXCEPT ![Frame(r)] = locals]
    /\ obs' = [obs EXCEPT ![r] = @ \o evs]
    /\ http' = [http EXCEPT ![r] = resp]
    /\ UNCHANGED <<request, clients>>

\* the call goes on to its next remote call
Continue(r, next, locals, evs) == Step(r, next, locals, evs, http[r])

\* the tool returns res; handle_generation assigns it to result and returns result
Return(r, res, evs) ==
    Step(r, "done", [L(r) EXCEPT !.result = res], evs, [status |-> 200, body |-> res])

\* an exception leaves the tool or routing function and then handle_generation
Escape(r, evs) == Step(r, "done", L(r), evs, ServerError)

\* POST /generate arrives with a body {prompt: p}
Receive(r, prompts) ==
    /\ pc[r] = "idle"
    /\ \E p \in prompts :
         /\ request' = [request EXCEPT ![r] = [prompt |-> p]]
         /\ pc' = [pc EXCEPT ![r] = "routing"]
         /\ frames' = [frames EXCEPT ![Frame(r)] = NoLocals]
    /\ UNCHANGED <<http, obs, bucket, issued, clients>>

\* tool_to_use, task_prompt = get_agent_decision(request.prompt)
GetAgentDecision(r, outcomes) ==
    /\ pc[r] = "routing"
    /\ UNCHANGED <<bucket, issued>>
    /\ \/ Escape(r, << InvokeEv("get_agent_decision", request[r].prompt),
                         CtorEv("routing", TRUE) >>)
       \/ \E out \in outcomes :
            Continue(r, "dispatch",
                     [L(r) EXCEPT !.tool_to_use = AgentTry(out),
                                  !.task_prompt = request[r].prompt],
                     << InvokeEv("get_agent_decision", request[r].prompt),
                        CtorEv("routing", FALSE),
                        GenEv("routing", <<TextPart(<<request[r].prompt>>)>>, out) >>)

\* generate_diagram_code(topic)
DiagramTool(r, topic, outcomes) ==
    /\ UNCHANGED <<bucket, issued>>
    /\ \/ Escape(r, << InvokeEv("generate_diagram_code", topic),
                         CtorEv("diagram", TRUE) >>)
       \/ \E out \in outcomes :
            Return(r,
                   IF out.raised THEN ToolExcept("diagram", out.msg)
                   ELSE DiagramResult(out.text),
                   << InvokeEv("generate_diagram_code", topic),
                      CtorEv("diagram", FALSE),
                      GenEv("diagram", <<TextPart(<<topic>>)>>, out) >>)

\* generate_chibi_image, generate_robot_image, generate_general_image, up to
\* the upload
ImageToolStart(r, f, prompt, outcomes) ==
    LET t == ImageTool(f)
        contents == ImageRequest(f, prompt)
        before == IF f = "generate_general_image"
                  THEN <<InvokeEv(f, prompt)>>
                  ELSE <<InvokeEv(f, prompt), FromUriEv(FALSE)>>
    IN  \/ /\ f # "generate_general_image"
           /\ UNCHANGED <<bucket, issued>>
           /\ Escape(r, <<InvokeEv(f, prompt), FromUriEv(TRUE)>>)
        \/ \E out \in outcomes :
             LET evs == before \o <<GenEv("image", contents, out)>>
             IN  IF out.raised
                 THEN /\ UNCHANGED <<bucket, issued>>
                      /\ Return(r, ToolExcept(t.label, out.msg), evs)
                 ELSE IF out.candidates = <<>>
                 THEN /\ UNCHANGED <<bucket, issued>>
                      /\ Return(r, ToolExcept(t.label, "list index out of range"), evs)
                 ELSE IF FirstInline(out.candidates[1]) = NoBytes
                 THEN /\ UNCHANGED <<bucket, issued>>
                      /\ Return(r, ToolExcept(t.label, "Model did not return an image."), evs)
                 ELSE \E u \in UUIDs \ issued :
                        /\ issued' = issued \cup {u}
                        /\ UNCHANGED bucket
                        /\ Continue(r, "upload",
                                    [L(r) EXCEPT
                                       !.image_bytes = FirstInline(out.candidates[1]),
                                       !.file_name = FileName(t.style, u)],
                                    evs \o <<UuidEv(u)>>)

\* handle_generation picks the tool function and calls it
CallTool(r, imageOutcomes, diagramOutcomes) ==
    /\ pc[r] = "dispatch"
    /\ LET f == ToolFunction(L(r).tool_to_use)
       IN  IF f = "none"
           THEN /\ UNCHANGED <<bucket, issued>>
                /\ Return(r, EmptyDict, <<>>)
           ELSE IF f = "generate_diagram_code"
           THEN DiagramTool(r, L(r).task_prompt, diagramOutcomes)
           ELSE ImageToolStart(r, f, L(r).task_prompt, imageOutcomes)

\* blob.upload_from_string(image_bytes, content_type="image/png")
Upload(r, msgs) ==
    /\ pc[r] = "upload"
    /\ UNCHANGED issued
    /\ LET t == ImageTool(ToolFunction(L(r).tool_to_use))
           name == L(r).file_name
           data == L(r).image_bytes
       IN  \/ /\ bucket' = (name :> [data |-> data, content_type |-> "image/png",
                                     public |-> FALSE]) @@ bucket
              /\ Continue(r, "publish", L(r), <<UploadEv(name, data, Returned)>>)
           \/ \E out \in Raises(msgs) :
                /\ UNCHANGED bucket
                /\ Return(r, ToolExcept(t.label, out.msg), <<UploadEv(name, data, out)>>)

\* blob.make_public(); return {"type": "image", "content": blob.public_url}
MakePublic(r, msgs) ==
    /\ pc[r] = "publish"
    /\ UNCHANGED issued
    /\ LET t == ImageTool(ToolFunction(L(r).tool_to_use))
           name == L(r).file_name
       IN  \/ /\ bucket' = [bucket EXCEPT ![name].public = TRUE]
              /\ Return(r, ImageResult(name), <<PublicEv(name, Returned)>>)
           \/ \E out \in Raises(msgs) :
                /\ UNCHANGED bucket
                /\ Return(r, ToolExcept(t.label, out.msg), <<PublicEv(name, out)>>)

(***************************************************************************)
(* Spec: one request, through routing and its tool.                        *)
(***************************************************************************)
Init == InitOf({1})

Next ==
    \E r \in Reqs :
       \/ Receive(r, Prompts)
       \/ GetAgentDecision(r, FlowOutcomes)
       \/ CallTool(r, ImageOutcomes, DiagramOutcomes)
       \/ Upload(r, ErrMsgs)
       \/ MakePublic(r, ErrMsgs)

Spec == Init /\ [][Next]_vars

(***************************************************************************)
(* SpecRoute: one request, up to the routing decision, over every response *)
(* of Responses.                                                           *)
(***************************************************************************)
NextRoute ==
    \/ Receive(1, Prompts)
    \/ GetAgentDecision(1, RouteOutcomes)

SpecRoute == Init /\ [][NextRoute]_vars

(***************************************************************************)
(* SpecConc: NumReq requests in flight at once, their steps interleaved in *)
(* any order, each with fewer answers of the environment to choose from.   *)
(***************************************************************************)
ConcMsgs == {"503 Service Unavailable"}

ConcRouteOutcomes ==
    Raises(ConcMsgs)
      \cup { Response(<<>>, FenceJson, <<"\n">>, ToolObject(chibi, <<" ">>), <<"\n">>, Fence, <<>>),
             Response(<<>>, <<>>, <<>>, ToolObject(diagram, <<" ">>), <<>>, <<>>, <<>>) }

ConcImageOutcomes ==
    Raises(ConcMsgs)
      \cup {[raised |-> FALSE, candidates |-> << <<[inline_data |-> "png-A"]>> >>]}

ConcDiagramOutcomes ==
    Raises(ConcMsgs) \cup {[raised |-> FALSE, text |-> "graph TD; A-->B"]}

InitConc == InitOf(Reqs)

NextConc ==
    \E r \in Reqs :
       \/ Receive(r, Prompts)
       \/ GetAgentDecision(r, ConcRouteOutcomes)
       \/ CallTool(r, ConcImageOutcomes, ConcDiagramOutcomes)
       \/ Upload(r, ConcMsgs)
       \/ MakePublic(r, ConcMsgs)

SpecConc == InitConc /\ [][NextConc]_vars

(***************************************************************************)
(* Reading the log of a request.                                           *)
(***************************************************************************)
Done(r) == pc[r] = "done"

\* the places in the log of r of the calls named c
Events(r, c) == {k \in 1 .. Len(obs[r]) : obs[r][k].call = c}

\* the places of the generate_content calls on the routing, image or diagram model
GenCalls(r, m) == {k \in Events(r, "generate_content") : obs[r][k].model = m}

\* the classification call of r has returned or raised
Classified(r) == GenCalls(r, "routing") # {}

\* what it gave
Classification(r) == obs[r][CHOOSE k \in GenCalls(r, "routing") : TRUE].out

\* the tool functions called for r
ToolCalls(r) ==
    {k \in 1 .. Len(obs[r]) : obs[r][k].call \in ImageFunctions \cup {"generate_diagram_code"}}

(***************************************************************************)
(* C1 (as claimed): get_agent_decision returns one of the four tool names, *)
(* and returns general whenever the classification call raised or the      *)
(* response is malformed.  A response is taken as malformed when its body  *)
(* is no JSON object with a tool field naming one of the four tools, or    *)
(* when text that is neither whitespace nor fence markup stands before it. *)
(***************************************************************************)
StrayOpeners == { <<"j", "s", "o", "n">>, <<"s", "o", "n">>, Fence \o <<"J", "S", "O", "N">> }

MalformedResponse(out) == out.body \in BadBodies \/ out.opener \in StrayOpeners

C1_MalformedYieldsGeneral ==
    \A r \in Reqs :
       Classified(r) =>
          /\ L(r).tool_to_use \in ToolNames
          /\ Classification(r).raised => L(r).tool_to_use = general
          /\ ~Classification(r).raised /\ MalformedResponse(Classification(r))
                => L(r).tool_to_use = general

(***************************************************************************)
(* C10: a response that is a JSON object {"tool": t}, t one of the four    *)
(* names in any letter case, bare or inside a json fence or a plain fence, *)
(* with whitespace around it, gives the tool lower(t); and what is left    *)
(* of the text after the stripping is the JSON object with at most JSON    *)
(* whitespace around it.                                                   *)
(***************************************************************************)
SpellingOf(body) ==
    CHOOSE t \in ToolSpellings : body \in {ToolObject(t, <<>>), ToolObject(t, <<" ">>)}

Wrapped(out) ==
    /\ ~out.raised
    /\ out.body \in GoodBodies
    /\ <<out.opener, out.closer>> \in
          { << <<>>, <<>> >>, <<FenceJson, Fence>>, <<Fence, Fence>> }

C2_NoExceptionEscapes == \A r \in Reqs : Done(r) => http[r] # ServerError

(***************************************************************************)
(* C3: when the generation step of a tool fails (the model call raises,    *)
(* the response holds no part with inline data, the upload raises or       *)
(* make_public raises) the request is answered 200 with {type: text,       *)
(* content: "Error generating <what>: <message of the failure>"}, and for  *)
(* the diagram tool <what> is "diagram".                                   *)
(***************************************************************************)
\* the messages of the generation failures in the log of r
GenerationFailures(r) ==
    {obs[r][k].out.msg :
        k \in {j \in GenCalls(r, "image") \cup GenCalls(r, "diagram") : obs[r][j].out.raised}}
      \cup {"list index out of range" :
              k \in {j \in GenCalls(r, "image") :
                       ~obs[r][j].out.raised /\ obs[r][j].out.candidates = <<>>}}
      \cup {"Model did not return an image." :
              k \in {j \in GenCalls(r, "image") :
                       /\ ~obs[r][j].out.raised
                       /\ obs[r][j].out.candidates # <<>>
                       /\ \A i \in 1 .. Len(obs[r][j].out.candidates[1]) :
                             obs[r][j].out.candidates[1][i].inline_data = ""}}
      \cup {obs[r][k].out.msg :
              k \in {j \in Events(r, "upload_from_string") \cup Events(r, "make_public") :
                       obs[r][j].out.raised}}

C3_GenerationFailureIsTextResult ==
    \A r \in Reqs :
       \A m \in GenerationFailures(r) :
          /\ Done(r)
          /\ http[r].status = 200
          /\ http[r].body.type = "text"
          /\ Len(http[r].body.content) = 4
          /\ http[r].body.content[1] = "Error generating "
          /\ http[r].body.content[4] = m
          /\ Events(r, "generate_diagram_code") # {}
                => http[r].body.content = <<"Error generating ", "diagram", ": ", m>>

\* the robot tool got a response with parts, none of them with inline data
C3_Witness ==
    \E r \in Reqs :
       /\ Events(r, "generate_robot_image") # {}
       /\ \E k \in GenCalls(r, "image") :
             /\ ~obs[r][k].out.raised
             /\ obs[r][k].out.candidates # <<>>
             /\ Len(obs[r][k].out.candidates[1]) = 2
       /\ "Model did not return an image." \in GenerationFailures(r)
       /\ http[r].status = 200

(***************************************************************************)
(* C4 (as claimed): every request is answered with an object of exactly    *)
(* the two fields type and content, type one of image, diagram, text.      *)
(***************************************************************************)
C4_ResponseIsTypeAndContent ==
    \A r \in Reqs :
       Done(r) =>
          /\ http[r].status = 200
          /\ DOMAIN http[r].body = {"type", "content"}
          /\ http[r].body.type \in {"image", "diagram", "text"}

(***************************************************************************)
(* C5 (as claimed): for every request the routing function is called       *)
(* first, then exactly one tool function, the one the decision names, with *)
(* the prompt of the request; the response is what that tool returned.     *)
(***************************************************************************)
NamedFunction(tool) ==
    CASE tool = chibi -> "generate_chibi_image"
      [] tool = robot -> "generate_robot_image"
      [] tool = diagram -> "generate_diagram_code"
      [] tool = general -> "generate_general_image"
      [] OTHER -> "no such tool"

C5_RoutingThenTheNamedTool ==
    \A r \in Reqs :
       Done(r) =>
          /\ Events(r, "get_agent_decision") = {1}
          /\ obs[r][1].prompt = request[r].prompt
          /\ Cardinality(ToolCalls(r)) = 1
          /\ \A k \in ToolCalls(r) :
                /\ k > 1
                /\ obs[r][k].call = NamedFunction(L(r).tool_to_use)
                /\ obs[r][k].prompt = request[r].prompt
          /\ http[r] = [status |-> 200, body |-> L(r).result]

(***************************************************************************)
(* C6: the chibi tool sends the image model one instruction text followed  *)
(* by the 14 chibi reference images in their order, the robot tool one     *)
(* instruction text followed by the 9 robot reference images in their      *)
(* order, whatever the prompt; the general tool sends the prompt alone.    *)
(***************************************************************************)
Distinct(seq) == Cardinality({seq[k] : k \in 1 .. Len(seq)}) = Len(seq)

SendsInstructionThen(contents, uris, n, prompt) ==
    /\ Len(uris) = n
    /\ Distinct(uris)
    /\ Len(contents) = n + 1
    /\ contents[1].kind = "text"
    /\ \E k \in 1 .. Len(contents[1].text) : contents[1].text[k] = prompt
    /\ \A k \in 1 .. n :
          contents[k + 1] = [kind |-> "uri", uri |-> uris[k], mime_type |-> "image/png"]

C6_AllReferencesInOrder ==
    \A r \in Reqs :
       \A k \in GenCalls(r, "image") :
          /\ Events(r, "generate_chibi_image") # {} =>
                /\ SendsInstructionThen(obs[r][k].contents, CHIBI_STYLE_GUIDE_URIS, 14,
                                        request[r].prompt)
                /\ obs[r][k].contents[2].uri
                      = "gs://BUCKET_NAME/chibi_dataset_images/elsa_01.png"
                /\ obs[r][k].contents[15].uri
                      = "gs://BUCKET_NAME/chibi_dataset_images/elsa_20_cropped.png"
          /\ Events(r, "generate_robot_image") # {} =>
                /\ SendsInstructionThen(obs[r][k].contents, ROBOT_STYLE_GUIDE_URIS, 9,
                                        request[r].prompt)
                /\ obs[r][k].contents[2].uri = "gs://BUCKET_NAME/robot_images/elsa_05.png"
                /\ obs[r][k].contents[10].uri = "gs://BUCKET_NAME/robot_images/elsa_19.png"
          /\ Events(r, "generate_general_image") # {} =>
                obs[r][k].contents = <<[kind |-> "text", text |-> <<request[r].prompt>>]>>

\* the chibi tool has sent its request, for a prompt about a flowchart
C6_Witness ==
    \E r \in Reqs :
       /\ Events(r, "generate_chibi_image") # {}
       /\ GenCalls(r, "image") # {}
       /\ request[r].prompt = "a flowchart of the CI pipeline"

(***************************************************************************)
(* C8 (as claimed): a request makes exactly one classification call, then  *)
(* at most one generation call, then at most one storage write; nothing is *)
(* retried: a failed classification is followed by the general tool, a     *)
(* failed generation call or storage write is the last call and the result *)
(* is text; the diagram tool writes nothing to storage.                    *)
(***************************************************************************)
GenerationCalls(r) == GenCalls(r, "image") \cup GenCalls(r, "diagram")

C8_OneCallEachInOrder ==
    \A r \in Reqs :
       Done(r) =>
          /\ Cardinality(GenCalls(r, "routing")) = 1
          /\ Cardinality(GenerationCalls(r)) <= 1
          /\ Cardinality(Events(r, "upload_from_string")) <= 1
          /\ \A c \in GenCalls(r, "routing") :
                /\ \A g \in GenerationCalls(r) :
                      /\ c < g
                      /\ \A u \in Events(r, "upload_from_string") : g < u
                /\ obs[r][c].out.raised => Events(r, "generate_general_image") # {}
          /\ \A k \in GenerationCalls(r) \cup Events(r, "upload_from_string") :
                obs[r][k].out.raised =>
                   /\ k = Len(obs[r])
                   /\ http[r].status = 200
                   /\ http[r].body.type = "text"
          /\ Events(r, "generate_diagram_code") # {} => Events(r, "upload_from_string") = {}

(***************************************************************************)
(* C9: an image tool returns a result of type image only after the bytes   *)
(* of the first part with inline data, in the order of the parts, were     *)
(* uploaded as image/png under outputs/<style>_<uuid>.png, the uuid drawn  *)
(* in this call, and that object was then made public; the content is the  *)
(* public URL of that object; and when the upload or make_public raises,   *)
(* the result is not of type image.                                        *)
(***************************************************************************)
StyleOfFunction(r) ==
    IF Events(r, "generate_chibi_image") # {} THEN "chibi"
    ELSE IF Events(r, "generate_robot_image") # {} THEN "robot"
    ELSE "general"

IsFirstInlineOf(data, parts) ==
    \E k \in 1 .. Len(parts) :
       /\ parts[k].inline_data # ""
       /\ parts[k].inline_data = data
       /\ \A j \in 1 .. k - 1 : parts[j].inline_data = ""

C9_ImageOnlyAfterUploadAndPublish ==
    \A r \in Reqs :
       /\ Done(r) /\ http[r].status = 200 /\ http[r].body.type = "image" =>
             \E g \in GenCalls(r, "image"), u \in Events(r, "uuid4"),
                up \in Events(r, "upload_from_string"), mp \in Events(r, "make_public") :
                /\ g < u /\ u < up /\ up < mp
                /\ ~obs[r][g].out.raised
                /\ ~obs[r][up].out.raised
                /\ ~obs[r][mp].out.raised
                /\ IsFirstInlineOf(obs[r][up].data, obs[r][g].out.candidates[1])
                /\ obs[r][up].name
                      = <<"outputs/", StyleOfFunction(r), "_", obs[r][u].value, ".png">>
                /\ obs[r][up].content_type = "image/png"
                /\ obs[r][mp].name = obs[r][up].name
                /\ obs[r][up].name \in DOMAIN bucket
                /\ bucket[obs[r][up].name]
                      = [data |-> obs[r][up].data, content_type |-> "image/png",
                         public |-> TRUE]
                /\ http[r].body.content
                      = <<"https://storage.googleapis.com/", BUCKET_NAME, "/">>
                           \o obs[r][up].name
       /\ \A k \in Events(r, "upload_from_string") \cup Events(r, "make_public") :
             obs[r][k].out.raised => Done(r) /\ http[r].body.type # "image"

\* an image came back for a response whose two parts carry different bytes
C9_Witness ==
    \E r \in Reqs :
       /\ Done(r) /\ http[r].status = 200 /\ http[r].body.type = "image"
       /\ \E g \in GenCalls(r, "image") :
             /\ Len(obs[r][g].out.candidates[1]) = 2
             /\ obs[r][g].out.candidates[1][1].inline_data = "png-B"
             /\ obs[r][g].out.candidates[1][2].inline_data = "png-A"

(***************************************************************************)
(* C7: with several requests in flight, whatever the order of their steps, *)
(* every request that has not been answered can take its next step; the    *)
(* local variables and the response of a request are those its own prompt  *)
(* and the answers to its own calls determine; the client handles stay as  *)
(* they were at start-up; and every stored object holds what the one       *)
(* request that wrote it uploaded.                                         *)
(***************************************************************************)
The(S) == CHOOSE k \in S : TRUE

\* the steps of request r
RequestStep(r) ==
    \/ Receive(r, Prompts)
    \/ GetAgentDecision(r, ConcRouteOutcomes)
    \/ CallTool(r, ConcImageOutcomes, ConcDiagramOutcomes)
    \/ Upload(r, ConcMsgs)
    \/ MakePublic(r, ConcMsgs)

\* the local variables of r, were r the only request: computed from its
\* prompt and its own log
OwnLocals(r) ==
    LET tool == IF Classified(r) THEN AgentTry(Classification(r)) ELSE <<>>
        drew == Events(r, "uuid4") # {}
        res == IF Done(r) /\ http[r].status = 200 THEN http[r].body ELSE EmptyDict
    IN  [tool_to_use |-> tool,
         task_prompt |-> IF Classified(r) THEN request[r].prompt ELSE "",
         image_bytes |->
            IF drew
            THEN FirstInline(obs[r][The(GenCalls(r, "image"))].out.candidates[1])
            ELSE NoBytes,
         file_name |->
            IF drew
            THEN FileName(ImageTool(ToolFunction(tool)).style,
                          obs[r][The(Events(r, "uuid4"))].value)
            ELSE <<>>,
         result |-> res]

\* the result of the tool of r, were r the only request: computed from the
\* answers in its own log (r is done and no exception escaped)
OwnResult(r) ==
    LET f == ToolFunction(AgentTry(Classification(r)))
        last == obs[r][Len(obs[r])]
    IN  IF f = "generate_diagram_code"
        THEN IF last.out.raised THEN ToolExcept("diagram", last.out.msg)
             ELSE DiagramResult(last.out.text)
        ELSE IF last.out.raised THEN ToolExcept(ImageTool(f).label, last.out.msg)
        ELSE IF last.call = "make_public" THEN ImageResult(last.name)
        ELSE IF last.out.candidates = <<>>
             THEN ToolExcept(ImageTool(f).label, "list index out of range")
        ELSE ToolExcept(ImageTool(f).label, "Model did not return an image.")

Escaped(r) ==
    /\ obs[r] # <<>>
    /\ obs[r][Len(obs[r])].call \in {"GenerativeModel", "Part.from_uri"}
    /\ obs[r][Len(obs[r])].raised

\* the uploads of r that returned
Uploads(r) == {k \in Events(r, "upload_from_string") : ~obs[r][k].out.raised}

====
